---- MODULE Spec2Model ----
(***************************************************************************)
(* brownify: the recipe compiler (brownify/parsers.py) and the pipeline    *)
(* executor (brownify/runners.py, models.py, actions.py).                  *)
(*                                                                         *)
(* A text is a sequence of one-character strings.  Track names, tokens     *)
(* and file names are texts.  Positions in a text are 1-based; a matcher   *)
(* returns the position after the match, or 0 when it does not match.      *)
(***************************************************************************)
EXTENDS Integers, Sequences, FiniteSets, TLC

(***************************************************************************)
(* Bounds of the model.                                                    *)
(***************************************************************************)
\* expressions per recipe
MaxExprs == 2
\* action keywords per expression
MaxActions == 2
\* frames per loaded audio buffer
NumFrames == 7
\* tokens per expression given to _convert_into_pipeline on its own
MaxTokens == 3
\* the largest number of samples time_shift is asked to shift by, either way
MaxSteps == 3
\* the actions applied to a track one after the other, called on their own
MaxApplied == 2
\* the calls of process() on one PipelineProcessor
MaxCalls == 2

(***************************************************************************)
(* Character classes (pyparsing: alphanums, default whitespace, default    *)
(* keyword identifier characters).                                         *)
(***************************************************************************)
Lower ==
  {"a","b","c","d","e","f","g","h","i","j","k","l","m",
   "n","o","p","q","r","s","t","u","v","w","x","y","z"}

Upper ==
  {"A","B","C","D","E","F","G","H","I","J","K","L","M",
   "N","O","P","Q","R","S","T","U","V","W","X","Y","Z"}

Digits == {"0","1","2","3","4","5","6","7","8","9"}

alphanums == Lower \cup Upper \cup Digits

White_blanks == {" ", "\t"}

White == {" ", "\n", "\t", "\r"}

IdentChars == alphanums \cup {"_", "$"}

(***************************************************************************)
(* The words of the grammar, as texts.                                     *)
(***************************************************************************)
bass == <<"b","a","s","s">>

drums == <<"d","r","u","m","s">>

piano == <<"p","i","a","n","o">>

other == <<"o","t","h","e","r">>

vocals == <<"v","o","c","a","l","s">>

drop == <<"d","r","o","p">>

early == <<"e","a","r","l","y">>

flat == <<"f","l","a","t">>

halfflat == <<"h","a","l","f","f","l","a","t">>

halfsharp == <<"h","a","l","f","s","h","a","r","p">>

late == <<"l","a","t","e">>

octavedown == <<"o","c","t","a","v","e","d","o","w","n">>

octaveup == <<"o","c","t","a","v","e","u","p">>

sharp == <<"s","h","a","r","p">>

SaveOpen == <<"s","a","v","e","(">>

SaveClose == <<")">>

Arrow == <<"-",">">>

Semi == <<";">>

ChannelWords == <<bass, drums, piano, other, vocals>>

ActionWords ==
  <<early, flat, halfflat, halfsharp, late, octavedown, octaveup, sharp>>

(***************************************************************************)
(* pyparsing primitives.                                                   *)
(***************************************************************************)
RECURSIVE SkipWS(_, _)
SkipWS(s, i) ==
  IF i <= Len(s) /\ s[i] \in White THEN SkipWS(s, i + 1) ELSE i

\* pp.Literal(lit) at position i (leading whitespace skipped)
Literal(s, i, lit) ==
  LET j == SkipWS(s, i)
      e == j + Len(lit)
  IN  IF e - 1 <= Len(s) /\ SubSeq(s, j, e - 1) = lit THEN e ELSE 0

\* pp.Keyword(kw): the literal, not glued to identifier characters
Keyword(s, i, kw) ==
  LET j == SkipWS(s, i)
      e == j + Len(kw)
  IN  IF /\ e - 1 <= Len(s)
         /\ SubSeq(s, j, e - 1) = kw
         /\ (e > Len(s) \/ s[e] \notin IdentChars)
         /\ (j = 1 \/ s[j - 1] \notin IdentChars)
      THEN e ELSE 0

RECURSIVE WordEnd(_, _)
WordEnd(s, i) ==
  IF i <= Len(s) /\ s[i] \in alphanums THEN WordEnd(s, i + 1) ELSE i

\* pp.Word(pp.alphanums): a maximal non-empty run of alphanumerics
Word(s, i) ==
  LET j == SkipWS(s, i)
      e == WordEnd(s, j)
  IN  IF e > j THEN e ELSE 0

\* the first of two alternatives that matches (positions)
FirstPos(a, b) == IF a # 0 THEN a ELSE b

\* first alternative among the keywords ws (a sequence) that matches
RECURSIVE FirstKeyword(_, _, _, _)
FirstKeyword(s, i, ws, k) ==
  IF k > Len(ws) THEN 0
  ELSE FirstPos(Keyword(s, i, ws[k]), FirstKeyword(s, i, ws, k + 1))

\* the text a match consumed, without the skipped whitespace
Matched(s, i, e) == SubSeq(s, SkipWS(s, i), e - 1)

(***************************************************************************)
(* The grammar of ActionParser.__init__.  An element applied at position i *)
(* gives [pos, toks]: the position after the match (0: no match) and the   *)
(* tokens it emits.  A plain token is [group |-> FALSE, parts |-> <<t>>]   *)
(* with t its text; a pp.Group is [group |-> TRUE, parts |-> its tokens].  *)
(***************************************************************************)
NoMatch == [pos |-> 0, toks |-> <<>>]

Plain(t) == [group |-> FALSE, parts |-> <<t>>]

Emit(s, i, e) ==
  IF e = 0 THEN NoMatch ELSE [pos |-> e, toks |-> <<Plain(Matched(s, i, e))>>]

\* a | b (pp.MatchFirst): the first alternative that matches
MatchFirst(a, b) == IF a.pos # 0 THEN a ELSE b

\* a + b (pp.And): the tokens of a followed by those of b, when b matched
Cat(a, b) ==
  IF b.pos = 0 THEN NoMatch ELSE [pos |-> b.pos, toks |-> a.toks \o b.toks]

\* pp.Group(a): the tokens of a as one grouped token
Group(a) ==
  IF a.pos = 0 THEN NoMatch
  ELSE [pos |-> a.pos, toks |-> <<[group |-> TRUE, parts |-> a.toks]>>]

\* a[0, ...] and a[0, 1] when a did not match: nothing consumed at i
OrNothing(a, i) == IF a.pos = 0 THEN [pos |-> i, toks |-> <<>>] ELSE a

\* In a sequence a + X (pp.And) the element X is applied where the match a
\* ended: ThenX(s, a) is the match of a + X.

P_channel(s, i) == Emit(s, i, FirstKeyword(s, i, ChannelWords, 1))

P_entity(s, i) == Emit(s, i, Word(s, i))

ThenEntity(s, a) == IF a.pos = 0 THEN NoMatch ELSE Cat(a, P_entity(s, a.pos))

P_drop(s, i) == Emit(s, i, Keyword(s, i, drop))

P_var(s, i) == P_entity(s, i)

P_saveopen(s, i) == Emit(s, i, Literal(s, i, SaveOpen))

P_saveclose(s, i) == Emit(s, i, Literal(s, i, SaveClose))

ThenSaveClose(s, a) ==
  IF a.pos = 0 THEN NoMatch ELSE Cat(a, P_saveclose(s, a.pos))

P_save(s, i) == Group(ThenSaveClose(s, ThenEntity(s, P_saveopen(s, i))))

P_source_orsave(s, i) ==
  MatchFirst(P_channel(s, i),
             MatchFirst(P_save(s, i),
                        P_entity(s, i)))

P_source(s, i) == MatchFirst(P_channel(s, i), P_entity(s, i))

P_sink(s, i) == MatchFirst(P_drop(s, i), MatchFirst(P_save(s, i), P_var(s, i)))

ThenSink(s, a) == IF a.pos = 0 THEN NoMatch ELSE Cat(a, P_sink(s, a.pos))

P_action(s, i) == Emit(s, i, FirstKeyword(s, i, ActionWords, 1))

P_connector(s, i) == Emit(s, i, Literal(s, i, Arrow))

ThenConnector(s, a) ==
  IF a.pos = 0 THEN NoMatch ELSE Cat(a, P_connector(s, a.pos))

\* (self._action + self._connector)[0, ...]
RECURSIVE P_actions(_, _)
ThenActions(s, a) == IF a.pos = 0 THEN NoMatch ELSE Cat(a, P_actions(s, a.pos))

P_actions(s, i) ==
  OrNothing(ThenActions(s, ThenConnector(s, P_action(s, i))), i)

\* pp.Group(source + connector + (action + connector)[0, ...] + sink)
P_expression(s, i) ==
  Group(ThenSink(s, ThenActions(s, ThenConnector(s, P_source(s, i)))))

ThenExpression(s, a) ==
  IF a.pos = 0 THEN NoMatch ELSE Cat(a, P_expression(s, a.pos))

P_eol(s, i) == Emit(s, i, Literal(s, i, Semi))

\* (self._eol + self._expression)[0, ...]
RECURSIVE P_more(_, _)
ThenMore(s, a) == IF a.pos = 0 THEN NoMatch ELSE Cat(a, P_more(s, a.pos))

P_more(s, i) == OrNothing(ThenMore(s, ThenExpression(s, P_eol(s, i))), i)

\* + self._eol[0, 1]
ThenOptEol(s, a) ==
  IF a.pos = 0 THEN NoMatch ELSE Cat(a, OrNothing(P_eol(s, a.pos), a.pos))

\* expression + (eol + expression)[0, ...] + eol[0, 1].  The variant makes
\* the first expression optional too.
P_pipelines_star(s, i) ==
  ThenOptEol(s, OrNothing(ThenMore(s, P_expression(s, i)), i))

P_pipelines(s, i) == ThenOptEol(s, ThenMore(s, P_expression(s, i)))

\* the whole text is consumed, up to trailing whitespace
AtEnd_prefix(s, r) ==
  IF r.pos # 0 THEN [ok |-> TRUE, toks |-> r.toks]
  ELSE [ok |-> FALSE, toks |-> <<>>]

AtEnd(s, r) ==
  IF r.pos # 0 /\ SkipWS(s, r.pos) > Len(s)
  THEN [ok |-> TRUE, toks |-> r.toks]
  ELSE [ok |-> FALSE, toks |-> <<>>]

\* self._pipelines.parseString(program, parseAll=True)
parseString(s) == AtEnd(s, P_pipelines(s, 1))

(***************************************************************************)
(* The token classifier: pe.parseString(token), without parseAll, so a     *)
(* match of a prefix of the token is a match.                              *)
(***************************************************************************)
_is_action(token) == P_action(token, 1).pos # 0

_is_connector(token) == P_connector(token, 1).pos # 0

_is_source(token) == P_source(token, 1).pos # 0

_is_sink_strict(token) ==
  P_sink(token, 1).pos # 0 /\ P_action(token, 1).pos = 0

_is_sink(token) == P_sink(token, 1).pos # 0

_is_save(token) == P_save(token, 1).pos # 0

_is_drop_never(token) == FALSE

_is_drop(token) == P_drop(token, 1).pos # 0

(***************************************************************************)
(* The compiler: ActionParser._split_into_expressions,                     *)
(* _convert_into_pipeline and get_pipelines.                               *)
(***************************************************************************)
RECURSIVE Join(_)
Join(parts) == IF parts = <<>> THEN <<>> ELSE Head(parts) \o Join(Tail(parts))

\* self._fn_map: keyword -> the Brownifier method, named by a string.  The
\* variant spells two keys as the methods are spelt.
_fn_map_asmethods ==
  (early :> "early") @@ (flat :> "flat")
    @@ (<<"h","a","l","f","_","f","l","a","t">> :> "half_flat")
    @@ (<<"h","a","l","f","_","s","h","a","r","p">> :> "half_sharp")
    @@ (late :> "late") @@ (octavedown :> "octave_down")
    @@ (octaveup :> "octave_up") @@ (sharp :> "sharp")

_fn_map ==
  (early :> "early") @@ (flat :> "flat") @@ (halfflat :> "half_flat")
    @@ (halfsharp :> "half_sharp") @@ (late :> "late")
    @@ (octavedown :> "octave_down") @@ (octaveup :> "octave_up")
    @@ (sharp :> "sharp")

\* the items of the parse result that are not the string ";"
RECURSIVE _split_into_expressions(_)
_split_into_expressions(program) ==
  IF program = <<>> THEN <<>>
  ELSE IF Head(program).group \/ Head(program).parts[1] # Semi
       THEN <<Head(program).parts>> \o _split_into_expressions(Tail(program))
       ELSE _split_into_expressions(Tail(program))

Pipeline(source, actions, sink, save) ==
  [source |-> source, actions |-> actions, sink |-> sink, save |-> save]

ReturnNone ==
  [kind |-> "none", err |-> "none", site |-> "none", pipeline |-> <<>>]

Raise(site, e) ==
  [kind |-> "error", err |-> e, site |-> site, pipeline |-> <<>>]

\* the text of a token: the string itself, or "".join(item) of a group
TokenText(item) ==
  IF item.group THEN Join([k \in DOMAIN item.parts |-> item.parts[k].parts[1]])
  ELSE item.parts[1]

\* item[1:-1] of a save token: the texts of the inner parts of a group, or
\* the inner characters of a string.  The variant is item[1:].
SinkNameParts_open(item) ==
  IF item.group
  THEN [k \in 1..(Len(item.parts) - 1) |-> item.parts[k + 1].parts[1]]
  ELSE [k \in 1..(Len(item.parts[1]) - 1) |-> <<item.parts[1][k + 1]>>]

SinkNameParts(item) ==
  IF item.group
  THEN [k \in 1..(IF Len(item.parts) < 2 THEN 0 ELSE Len(item.parts) - 2)
          |-> item.parts[k + 1].parts[1]]
  ELSE [k \in 1..(IF Len(item.parts[1]) < 2 THEN 0 ELSE Len(item.parts[1]) - 2)
          |-> <<item.parts[1][k + 1]>>]

\* actions.append(self._fn_map[item])
AddAction_front(actions, token) == <<_fn_map[token]>> \o actions

AddAction(actions, token) == Append(actions, _fn_map[token])

\* variant: the save branch leaves the save flag as it is
SaveSink_noflag(item, sink, save) ==
  [sink |-> <<SinkNameParts(item)[1]>>, save |-> save]

\* the save branch: sink = sink_name_parts[0]; save = True
SaveSink(item, sink, save) ==
  [sink |-> <<SinkNameParts(item)[1]>>, save |-> TRUE]

\* the plain branch: sink = token
PlainSink(token, sink, save) == [sink |-> <<token>>, save |-> save]

\* after the loop: if not isinstance(sink, str): raise ...; return
\* Pipeline(...).  The variant returns the Pipeline with sink None, written
\* as the empty name.
AfterWalk_nocheck(source, actions, sink, save) ==
  [kind |-> "pipeline", err |-> "none", site |-> "none",
   pipeline |-> <<Pipeline(source, actions,
                           IF sink = <<>> THEN <<>> ELSE sink[1], save)>>]

AfterWalk(source, actions, sink, save) ==
  IF sink = <<>> THEN Raise("missing_sink", "UnexpectedTokenTypeError")
  ELSE [kind |-> "pipeline", err |-> "none", site |-> "none",
        pipeline |-> <<Pipeline(source, actions, sink[1], save)>>]

\* the loop over expression[1:]; sink is <<>> for None, <<name>> when set
RECURSIVE ConvertWalk(_, _, _, _, _, _)
ConvertWalk(expression, k, source, actions, sink, save) ==
  IF k > Len(expression)
  THEN AfterWalk(source, actions, sink, save)
  ELSE
    LET item == expression[k]
        token == TokenText(item)
    IN  IF _is_action(token)
        THEN IF item.group THEN Raise("fn_map", "TypeError")
             ELSE IF token \notin DOMAIN _fn_map
             THEN Raise("fn_map", "KeyError")
             ELSE ConvertWalk(expression, k + 1, source,
                              AddAction(actions, token), sink, save)
        ELSE IF _is_sink(token)
        THEN IF _is_drop(token) THEN ReturnNone
             ELSE IF _is_save(token)
             THEN IF Len(SinkNameParts(item)) # 1
                  THEN Raise("mismatch", "TokenNotInGrammarError")
                  ELSE LET r == SaveSink(item, sink, save)
                       IN  ConvertWalk(expression, k + 1, source, actions,
                                       r.sink, r.save)
             ELSE LET r == PlainSink(token, sink, save)
                  IN  ConvertWalk(expression, k + 1, source, actions,
                                  r.sink, r.save)
        ELSE IF _is_connector(token)
        THEN ConvertWalk(expression, k + 1, source, actions, sink, save)
        ELSE Raise("mismatch", "TokenNotInGrammarError")

\* the raise of the check of the leading token.  The variant raises a type
\* of its own.
RaiseInvalidSource_own == Raise("invalid_source", "InvalidSourceError")

RaiseInvalidSource == Raise("invalid_source", "UnexpectedTokenTypeError")

_convert_into_pipeline(expression) ==
  IF Len(expression) = 0 THEN ReturnNone
  ELSE IF expression[1].group \/ ~_is_source(expression[1].parts[1])
  THEN RaiseInvalidSource
  ELSE ConvertWalk(expression, 2, expression[1].parts[1], <<>>, <<>>, FALSE)

\* variant: the pipeline is put in front of the list
AddPipeline_front(pipelines, r) == r.pipeline \o pipelines

\* if pipeline: pipelines.append(pipeline)
AddPipeline(pipelines, r) == pipelines \o r.pipeline

\* the loop of get_pipelines over the expressions
RECURSIVE ConvertAll(_, _)
ConvertAll(pipeline_exprs, pipelines) ==
  IF pipeline_exprs = <<>> THEN [err |-> "none", pipelines |-> pipelines]
  ELSE LET r == _convert_into_pipeline(Head(pipeline_exprs))
       IN  IF r.kind = "error" THEN [err |-> r.err, pipelines |-> <<>>]
           ELSE ConvertAll(Tail(pipeline_exprs), AddPipeline(pipelines, r))

get_pipelines(program) ==
  LET parsed == parseString(program)
  IN  IF ~parsed.ok THEN [err |-> "ParseException", pipelines |-> <<>>]
      ELSE ConvertAll(_split_into_expressions(parsed.toks), <<>>)

(***************************************************************************)
(* Audio data.  A sample is a sequence of integers: <<v>> for a sample     *)
(* read from a file, and a longer sequence for a sample computed by the    *)
(* external pitch shifter (see pitch_shift).  An array is                  *)
(* [stereo, data]: stereo = FALSE is a 1-D array of N samples, stereo =    *)
(* TRUE is an (N, 2) array whose data is its row-major flattening.         *)
(* The heap is the sequence of the arrays allocated so far; a Track holds  *)
(* the index of its array, so two tracks may share one array.              *)
(***************************************************************************)
Track(audio, num_channels, sample_rate, save) ==
  [audio |-> audio, num_channels |-> num_channels,
   sample_rate |-> sample_rate, save |-> save]

\* allocate array a: the new heap, the new array being its last element
Alloc(h, a) == Append(h, a)

\* np.copy(self.audio)
np_copy(h, audio) == Alloc(h, h[audio])

\* Track.clone: [heap, track]
clone_keepsave(h, self) ==
  [heap |-> np_copy(h, self.audio),
   track |-> Track(Len(h) + 1, self.num_channels, self.sample_rate,
                   self.save)]

clone_shared(h, self) ==
  [heap |-> h,
   track |-> Track(self.audio, self.num_channels, self.sample_rate, FALSE)]

clone(h, self) ==
  [heap |-> np_copy(h, self.audio),
   track |-> Track(Len(h) + 1, self.num_channels, self.sample_rate, FALSE)]

\* column c (0 or 1) of the (N, 2) array data
Column(data, c) == [t \in 1..(Len(data) \div 2) |-> data[2 * (t - 1) + c + 1]]

RECURSIVE Encode(_)
Encode(y) ==
  IF y = <<>> THEN <<>> ELSE <<Len(Head(y))>> \o Head(y) \o Encode(Tail(y))

\* librosa.effects.pitch_shift(y, sr, n_steps, bins_per_octave): an external
\* pure function, kept uninterpreted.  The result has the length of y, and
\* its k-th sample is the term  ps(y, sr, n_steps, bins_per_octave)[k].
pitch_shift(y, sr, n_steps, bins_per_octave) ==
  LET e == Encode(y)
  IN  [k \in 1..Len(y) |-> <<n_steps, bins_per_octave, sr, k>> \o e]

\* np.roll(a, shift) without axis: the flattened array rotated by shift.
\* The variant does not wrap: what is shifted out is lost, silence comes in.
np_roll_nowrap(data, shift) ==
  [k \in 1..Len(data) |->
     IF k - shift \in 1..Len(data) THEN data[k - shift] ELSE <<0>>]

np_roll(data, shift) ==
  [k \in 1..Len(data) |-> data[((k - 1 - shift) % Len(data)) + 1]]

_is_stereo(track) == track.num_channels = 2

\* audio[:, c] = column, in place
SetColumn(data, c, col) ==
  [k \in 1..Len(data) |->
     IF (k - 1) % 2 = c THEN col[((k - 1) \div 2) + 1] ELSE data[k]]

\* both columns are shifted in place, in the array the track refers to
_change_pitch_stereo(h, track, n_steps, bins_per_octave) ==
  LET a  == h[track.audio]
      d0 == SetColumn(a.data, 0,
              pitch_shift(Column(a.data, 0), track.sample_rate,
                          n_steps, bins_per_octave))
      d1 == SetColumn(d0, 1,
              pitch_shift(Column(d0, 1), track.sample_rate,
                          n_steps, bins_per_octave))
  IN  [heap |-> [h EXCEPT ![track.audio] = [a EXCEPT !.data = d1]],
       track |-> track]

\* the track is rebound to the new array pitch_shift returns
_change_pitch_mono(h, track, n_steps, bins_per_octave) ==
  [heap |-> Alloc(h, [stereo |-> h[track.audio].stereo,
                      data |-> pitch_shift(h[track.audio].data,
                                 track.sample_rate, n_steps,
                                 bins_per_octave)]),
   track |-> [track EXCEPT !.audio = Len(h) + 1]]

change_pitch(h, track, n_steps, bins_per_octave) ==
  IF _is_stereo(track)
  THEN _change_pitch_stereo(h, track, n_steps, bins_per_octave)
  ELSE _change_pitch_mono(h, track, n_steps, bins_per_octave)

\* track.audio = np.roll(track.audio, steps)
time_shift(h, track, steps) ==
  [heap |-> Alloc(h, [stereo |-> h[track.audio].stereo,
                      data |-> np_roll(h[track.audio].data, steps)]),
   track |-> [track EXCEPT !.audio = Len(h) + 1]]

\* the Brownifier method named fn, applied to the track
Brownifier(fn, h, track) ==
  CASE fn = "flat" -> change_pitch(h, track, -1, 12)
    [] fn = "sharp" -> change_pitch(h, track, 1, 12)
    [] fn = "half_flat" -> change_pitch(h, track, -1, 24)
    [] fn = "half_sharp" -> change_pitch(h, track, 1, 24)
    [] fn = "octave_up" -> change_pitch(h, track, 12, 12)
    [] fn = "octave_down" -> change_pitch(h, track, -12, 12)
    [] fn = "early" -> time_shift(h, track, -1500)
    [] fn = "late" ->
         [heap |-> Alloc(h, [stereo |-> h[track.audio].stereo,
                             data |-> np_roll(h[track.audio].data, 1500)]),
          track |-> [track EXCEPT !.audio = Len(h) + 1]]

\* for action in pipeline.actions: track = action(track)
RECURSIVE ApplyActions(_, _, _)
ApplyActions(h, track, actions) ==
  IF actions = <<>> THEN [heap |-> h, track |-> track]
  ELSE LET r == Brownifier(Head(actions), h, track)
       IN  ApplyActions(r.heap, r.track, Tail(actions))

(***************************************************************************)
(* The executor: PipelineProcessor and AudioMerger (runners.py).           *)
(***************************************************************************)
\* AudioSplitter5Channel.CHANNELS, the splitter cli.main uses
CHANNELS == <<bass, drums, other, piano, vocals>>

\* the session directory (cli.main: str(uuid.uuid4()))
target == <<"i","d">>

\* f"./{target}/{name}.wav"
Filename(tgt, name) ==
  <<".","/">> \o tgt \o <<"/">> \o name \o <<".","w","a","v">>

\* dict assignment d[k] = v
Put(d, k, v) == [n \in DOMAIN d \cup {k} |-> IF n = k THEN v ELSE d[n]]

EmptyDict == [n \in {} |-> 0]

\* the keys of a dict in insertion order, after d[k] = v
PutKey(keys, k) ==
  IF \E j \in DOMAIN keys : keys[j] = k THEN keys ELSE Append(keys, k)

\* the same, after one assignment per element of ks
RECURSIVE PutKeys(_, _)
PutKeys(keys, ks) ==
  IF ks = <<>> THEN keys ELSE PutKeys(PutKey(keys, Head(ks)), Tail(ks))

\* sf.read(filename): [heap, track], the audio in a new array
_load_track(h, fs, filename) ==
  [heap |-> Alloc(h, [stereo |-> fs[filename].stereo,
                      data |-> fs[filename].data]),
   track |-> Track(Len(h) + 1,
                   IF fs[filename].stereo THEN 2 ELSE 1,
                   fs[filename].sample_rate, FALSE)]

\* PipelineProcessor.__init__: the loop over splitter.get_channels()
RECURSIVE LoadAll(_, _, _, _, _)
LoadAll(h, trks, keys, fs, channels) ==
  IF channels = <<>> THEN [heap |-> h, tracks |-> trks, keys |-> keys]
  ELSE LET r == _load_track(h, fs, Filename(target, Head(channels)))
       IN  LoadAll(r.heap, Put(trks, Head(channels), r.track),
                   PutKey(keys, Head(channels)), fs, Tail(channels))

\* what a track holds: the contents of its array and its other fields
Content(h, track) ==
  [data |-> h[track.audio].data, stereo |-> h[track.audio].stereo,
   num_channels |-> track.num_channels, sample_rate |-> track.sample_rate,
   save |-> track.save]

\* Track(audio=track.audio, num_channels=..., sample_rate=...,
\* save=pipeline.save), for the track the actions returned
SinkTrack_clonesave(pipeline, track) ==
  Track(track.audio, track.num_channels, track.sample_rate, track.save)

SinkTrack(pipeline, track) ==
  Track(track.audio, track.num_channels, track.sample_rate, pipeline.save)

\* self.tracks[pipeline.sink] = st
StoreSink_keep(trks, pipeline, st) ==
  IF pipeline.sink \in DOMAIN trks THEN trks ELSE Put(trks, pipeline.sink, st)

StoreSink(trks, pipeline, st) == Put(trks, pipeline.sink, st)

\* the body of the loop of _process, for a pipeline whose source exists:
\* clone, apply the actions, store under the sink.  input is what the
\* clone held before the actions, output what was handed to the store,
\* stored the names assigned in the store.
Executed(h, trks, pipeline, c, r) ==
  [raised |-> FALSE,
   heap |-> r.heap,
   tracks |-> StoreSink(trks, pipeline, SinkTrack(pipeline, r.track)),
   stored |-> <<pipeline.sink>>,
   run |-> <<[input |-> Content(c.heap, c.track),
              output |-> Content(r.heap, SinkTrack(pipeline, r.track))]>>]

ActionsOnClone(h, trks, pipeline, c) ==
  Executed(h, trks, pipeline, c,
           ApplyActions(c.heap, c.track, pipeline.actions))

ProcessOne(h, trks, pipeline) ==
  ActionsOnClone(h, trks, pipeline, clone(h, trks[pipeline.source]))

\* raise NoPipelineSourceError: the store is left as it is
RaiseNoSource_clear(h, trks) ==
  [raised |-> TRUE, heap |-> h, tracks |-> EmptyDict, stored |-> <<>>,
   run |-> <<>>]

RaiseNoSource(h, trks) ==
  [raised |-> TRUE, heap |-> h, tracks |-> trks, stored |-> <<>>,
   run |-> <<>>]

\* one iteration of the loop of _process
ProcessStep_skip(h, trks, pipeline) ==
  IF pipeline.source \notin DOMAIN trks
  THEN [raised |-> FALSE, heap |-> h, tracks |-> trks, stored |-> <<>>,
        run |-> <<>>]
  ELSE ProcessOne(h, trks, pipeline)

ProcessStep(h, trks, pipeline) ==
  IF pipeline.source \notin DOMAIN trks THEN RaiseNoSource(h, trks)
  ELSE ProcessOne(h, trks, pipeline)

\* sf.write(filename, track.audio, track.sample_rate)
_save_track(fs, filename, h, track) ==
  Put(fs, filename, [stereo |-> h[track.audio].stereo,
                     data |-> h[track.audio].data,
                     sample_rate |-> track.sample_rate])

\* _save: the loop over self.tracks, in the insertion order of the dict
\* if track.save:
ShouldSave_all(track) == TRUE

ShouldSave(track) == track.save

\* written: the file names _save_track was called with, in order
RECURSIVE SaveAll(_, _, _, _, _, _)
SaveAll(fs, saved, written, h, trks, keys) ==
  IF keys = <<>> THEN [files |-> fs, saved |-> saved, written |-> written]
  ELSE IF ShouldSave(trks[Head(keys)])
  THEN SaveAll(_save_track(fs, Filename(target, Head(keys)), h,
                           trks[Head(keys)]),
               Append(saved, Filename(target, Head(keys))),
               Append(written, Filename(target, Head(keys))),
               h, trks, Tail(keys))
  ELSE SaveAll(fs, saved, written, h, trks, Tail(keys))

(***************************************************************************)
(* Inputs: the recipes and the split audio files the runs start from.      *)
(* A recipe is described by its expressions, [source, actions, sink], and  *)
(* rendered to the text get_pipelines is given.                            *)
(***************************************************************************)
\* a track name that is not a channel of the splitter
v2 == <<"v","2">>

SourcePool == {vocals, v2}

SeqsUpTo(S, n) == UNION {[1..k -> S] : k \in 0..n}

Sink(kind, name) == [kind |-> kind, name |-> name]

\* the expressions of the recipes with several expressions
ChainExprs ==
  [source : SourcePool, actions : {<<>>, <<flat>>},
   sink : {Sink("drop", drop), Sink("save", vocals), Sink("save", v2),
           Sink("var", vocals), Sink("var", v2)}]

\* the expressions a recipe may have after its second one
TailExprs ==
  {[source |-> v2, actions |-> <<>>, sink |-> Sink("save", v2)],
   [source |-> v2, actions |-> <<flat>>, sink |-> Sink("save", vocals)],
   [source |-> vocals, actions |-> <<flat>>, sink |-> Sink("var", vocals)],
   [source |-> vocals, actions |-> <<>>, sink |-> Sink("drop", drop)]}

Recipes ==
  {r \in SeqsUpTo(ChainExprs, MaxExprs) :
     \A k \in DOMAIN r : k > 2 => r[k] \in TailExprs}

\* the expressions of the recipes with one expression; a plain sink named
\* as an action keyword is among them
SingleExprs ==
  [source : SourcePool,
   actions : SeqsUpTo({early, flat, halfsharp, late}, MaxActions),
   sink : {Sink("drop", drop), Sink("save", vocals), Sink("save", v2),
           Sink("var", vocals), Sink("var", v2), Sink("var", flat),
           Sink("save", flat)}]

\* expressions with each action keyword as a plain sink and as the name of
\* a save sink
KeywordSinkExprs ==
  [source : {vocals}, actions : {<<>>, <<flat>>},
   sink : {Sink(kind, ActionWords[w]) :
             kind \in {"var", "save"}, w \in DOMAIN ActionWords}]

\* sp: the whitespace put between tokens; end: the text after the last
\* expression
Layouts ==
  {[sp |-> <<" ">>, end |-> Semi], [sp |-> <<>>, end |-> <<>>],
   [sp |-> <<"\n", " ">>, end |-> <<";", "\n">>]}

DefaultLayout == [sp |-> <<" ">>, end |-> Semi]

SinkText(sink) ==
  CASE sink.kind = "drop" -> drop
    [] sink.kind = "save" -> SaveOpen \o sink.name \o SaveClose
    [] sink.kind = "var" -> sink.name

RECURSIVE ActionsText(_, _)
ActionsText(actions, sp) ==
  IF actions = <<>> THEN <<>>
  ELSE Head(actions) \o sp \o Arrow \o sp \o ActionsText(Tail(actions), sp)

ExprText(e, sp) ==
  e.source \o sp \o Arrow \o sp \o ActionsText(e.actions, sp)
           \o SinkText(e.sink)

RECURSIVE Render(_, _)
Render(r, lay) ==
  IF r = <<>> THEN <<>>
  ELSE IF Len(r) = 1 THEN ExprText(r[1], lay.sp) \o lay.end
  ELSE ExprText(r[1], lay.sp) \o Semi \o lay.sp \o Render(Tail(r), lay)

\* a layout with blank lines
BlankLines == [sp |-> <<"\n", "\n">>, end |-> <<";", "\n", "\n", " ">>]

\* the recipe text with whitespace before it too
RenderLed(r, lay) == lay.sp \o Render(r, lay)

\* Recipe texts that are not rendered from a recipe as above.
\* the two expressions of r with only whitespace between them
NoSemicolon(r, lay) ==
  ExprText(r[1], lay.sp) \o lay.sp \o ExprText(r[2], lay.sp) \o lay.end

\* words that are no action keywords
fake == <<"f","a","k","e">>

flats == <<"f","l","a","t","s">>

FakeWords == {fake, flats, <<"F","l","a","t">>}

\* expression e with the word w put in an action slot, before its actions
FakeAction(e, w, lay) ==
  e.source \o lay.sp \o Arrow \o lay.sp \o w \o lay.sp \o Arrow \o lay.sp
           \o ActionsText(e.actions, lay.sp) \o SinkText(e.sink) \o lay.end

\* a save construct where the source of an expression is expected: alone,
\* or in the place of the source of e
SaveAlone(name, lay) == SaveOpen \o name \o SaveClose \o lay.end

SaveAsSource(e, lay) ==
  SaveOpen \o e.source \o SaveClose \o lay.sp \o Arrow \o lay.sp
           \o ActionsText(e.actions, lay.sp) \o SinkText(e.sink) \o lay.end

\* expression e without its source
MissingSource(e, lay) ==
  Arrow \o lay.sp \o ActionsText(e.actions, lay.sp) \o SinkText(e.sink)
        \o lay.end

\* the layouts that put whitespace between tokens
SpacedLayouts == {lay \in Layouts : lay.sp # <<>>}

\* the expressions these texts are made from
PlainExprs ==
  [source : SourcePool, actions : {<<>>, <<flat>>},
   sink : {Sink("drop", drop), Sink("save", vocals), Sink("var", v2)}]

\* the texts with no expression in layout lay: whitespace only, or only
\* the text after the last expression
NoExpression(lay) == {lay.sp, lay.sp \o lay.sp, lay.end, lay.sp \o lay.end}

\* the malformed texts made from recipe r with layout lay
Malformed(r, lay) ==
  IF Len(r) = 2 THEN {NoSemicolon(r, lay)}
  ELSE {FakeAction(r[1], w, lay) : w \in FakeWords}
       \cup {SaveAlone(r[1].source, lay), SaveAsSource(r[1], lay),
             MissingSource(r[1], lay)}

\* Arguments of _convert_into_pipeline called on its own: lists of tokens
\* as parse results hold them, a string or a list of strings each.  A save
\* group and "(" are tokens that are no source.
SaveGroup(name) ==
  [group |-> TRUE, parts |-> <<Plain(SaveOpen), Plain(name), Plain(SaveClose)>>]

TokenPool ==
  {Plain(vocals), Plain(flat), Plain(Arrow), Plain(<<"(">>), SaveGroup(v2)}

TokenLists == SeqsUpTo(TokenPool, MaxTokens)

\* the wav file the splitter wrote for the c-th channel: NumFrames frames,
\* mono or stereo, every sample different
SplitWav(c, stereo) ==
  [stereo |-> stereo,
   data |-> [k \in 1..(IF stereo THEN 2 * NumFrames ELSE NumFrames)
               |-> <<100 * c + k>>],
   sample_rate |-> 44100]

SplitFiles(stereo) ==
  [f \in {Filename(target, CHANNELS[c]) : c \in DOMAIN CHANNELS} |->
     SplitWav(CHOOSE c \in DOMAIN CHANNELS : f = Filename(target, CHANNELS[c]),
              stereo)]

StoreContent(h, trks) == [n \in DOMAIN trks |-> Content(h, trks[n])]

\* _process(pipelines) as a function of the store it starts from: the
\* contents of the store when the loop ends or raises
RECURSIVE RunAll(_, _, _)
RunRest(r, rest) ==
  IF r.raised THEN StoreContent(r.heap, r.tracks)
  ELSE RunAll(r.heap, r.tracks, rest)

RunAll(h, trks, ps) ==
  IF ps = <<>> THEN StoreContent(h, trks)
  ELSE RunRest(ProcessStep(h, trks, Head(ps)), Tail(ps))

\* PipelineProcessor(...) on the split files fs, then _process(ps)
RunFresh(loaded, ps) == RunAll(loaded.heap, loaded.tracks, ps)

ProcessFresh(fs, ps) ==
  RunFresh(LoadAll(<<>>, EmptyDict, <<>>, fs, CHANNELS), ps)

(***************************************************************************)
(* The run of cli.main: compile the recipe, construct the processor over   *)
(* the split files, process the pipelines one by one, save, merge.         *)
(***************************************************************************)
VARIABLES
  recipe,        \* the expressions the recipe text was rendered from
  layout,        \* the layout it was rendered with
  program,       \* the recipe text
  files,         \* the wav files on disk: file name -> wav
  pc,            \* start, compiled, process, merge, done, failed
  pipelines,     \* the result of get_pipelines
  error,         \* the exception that ended the run, "none" if none
  tracks,        \* PipelineProcessor.tracks: name -> Track
  track_keys,    \* the keys of tracks in insertion order
  heap,          \* the arrays the tracks refer to
  _saved_files,  \* PipelineProcessor._saved_files
  i,             \* the index of the next pipeline of the loop of _process
  store0,        \* history: the contents of the store when process began
  runs,          \* history: per executed pipeline, its input and output
  writes,        \* history: the file names _save_track has written
  merge_args,    \* history: the file lists AudioMerger.merge was given
  output,        \* the merged files exported to the output file, if any
  pydub,         \* history: what became of pydub's decoding and encoding
  expression,    \* the argument of a call of _convert_into_pipeline alone
  converted,     \* what that call returned or raised
  dummy_track,   \* the track the actions are called on, on their own
  track,         \* its clone, as the actions have left it; <<>> before
  applied,       \* history: the actions called on the clone, in order
  calls,         \* the calls of process() that have ended on this processor
  args,          \* the command line of cli.main; NoArgs when main is not run
  input_file,    \* input_file of cli.main, "None" until it is assigned
  effects,       \* history: what main did to fetch, split and clean up
  status         \* how main ended: its return value or what escaped it

vars ==
  <<recipe, layout, program, files, pc, pipelines, error, tracks,
    track_keys, heap, _saved_files, i, store0, runs, writes, merge_args,
    output, pydub, expression, converted, dummy_track, track, applied,
    calls, args, input_file, effects, status>>

\* the variables of cli.main
main_vars == <<args, input_file, effects, status>>

\* no command line: the compiler and the processor are called directly
NoArgs == <<>>

\* main has not ended
Running == [returned |-> "none", raised |-> "none", handled |-> FALSE]

\* the variables of the calls of the actions on their own
actions_vars == <<dummy_track, track, applied>>

\* a track of n frames, mono or stereo, every sample different, as the
\* only array of the heap
DummyAudio(n, stereo) ==
  [stereo |-> stereo,
   data |-> [k \in 1..(IF stereo THEN 2 * n ELSE n) |-> <<k>>]]

\* the runs of the compiler and of the processor
InitRun ==
  /\ \/ /\ recipe \in Recipes
                        \cup {<<e>> : e \in SingleExprs \cup KeywordSinkExprs}
        /\ layout = DefaultLayout
        /\ files \in {SplitFiles(st) : st \in BOOLEAN}
        /\ program = Render(recipe, layout)
        /\ pc = "start"
        /\ expression = <<>>
     \/ /\ recipe \in {<<e>> : e \in SingleExprs}
        /\ layout \in Layouts \ {DefaultLayout}
        /\ files = SplitFiles(TRUE)
        /\ program = Render(recipe, layout)
        /\ pc = "start"
        /\ expression = <<>>
     \/ /\ recipe \in [1..2 -> PlainExprs] \cup {<<e>> : e \in PlainExprs}
        /\ layout \in SpacedLayouts \cup {BlankLines}
        /\ files = SplitFiles(TRUE)
        /\ program \in Malformed(recipe, layout)
                        \cup {Render(recipe, layout), RenderLed(recipe, layout)}
        /\ pc = "start"
        /\ expression = <<>>
     \/ /\ recipe = <<>>
        /\ layout \in SpacedLayouts \cup {BlankLines}
        /\ files = SplitFiles(TRUE)
        /\ program \in NoExpression(layout)
        /\ pc = "start"
        /\ expression = <<>>
     \/ /\ recipe = <<>>
        /\ layout = DefaultLayout
        /\ files = SplitFiles(TRUE)
        /\ program = <<>>
        /\ pc = "unit"
        /\ expression \in TokenLists
  /\ heap = <<>>
  /\ dummy_track = <<>>

\* the calls of the actions on a track, on their own
InitActions ==
  /\ recipe = <<>>
  /\ layout = DefaultLayout
  /\ files = SplitFiles(TRUE)
  /\ program = <<>>
  /\ pc = "actions"
  /\ expression = <<>>
  /\ \E n \in 1..NumFrames, stereo \in BOOLEAN :
       /\ heap = <<DummyAudio(n, stereo)>>
       /\ dummy_track = Track(1, IF stereo THEN 2 ELSE 1, 12345, FALSE)

\* what no run has touched yet
InitRest ==
  /\ converted = ReturnNone
  /\ pipelines = <<>>
  /\ error = "none"
  /\ tracks = EmptyDict
  /\ track_keys = <<>>
  /\ _saved_files = <<>>
  /\ i = 1
  /\ store0 = EmptyDict
  /\ runs = <<>>
  /\ writes = <<>>
  /\ merge_args = <<>>
  /\ output = <<>>
  /\ pydub = "unused"
  /\ track = <<>>
  /\ applied = <<>>
  /\ calls = 0
  /\ input_file = "None"
  /\ effects = <<>>
  /\ status = Running

Init ==
  /\ InitRun \/ InitActions
  /\ InitRest
  /\ args = NoArgs

\* ap.get_pipelines(program)
GetPipelines ==
  /\ pc = "start"
  /\ LET r == get_pipelines(program)
     IN  /\ pipelines' = r.pipelines
         /\ error' = r.err
         /\ pc' = IF r.err = "none" THEN "compiled" ELSE "failed"
  /\ UNCHANGED <<recipe, layout, program, files, tracks, track_keys, heap,
                 _saved_files, i, store0, runs, writes, merge_args, output,
                 pydub, expression, converted, actions_vars, calls, main_vars>>

\* PipelineProcessor(session_id, splitter); in main, once the input has
\* been split
NewProcessor ==
  /\ pc = IF args = NoArgs THEN "compiled" ELSE "split"
  /\ LET r == LoadAll(<<>>, EmptyDict, <<>>, files, CHANNELS)
     IN  /\ heap' = r.heap
         /\ tracks' = r.tracks
         /\ track_keys' = r.keys
         /\ store0' = StoreContent(r.heap, r.tracks)
  /\ _saved_files' = <<>>
  /\ i' = 1
  /\ pc' = "process"
  /\ UNCHANGED <<recipe, layout, program, files, pipelines, error, runs,
                 writes, merge_args, output,
                 pydub, expression, converted, actions_vars, calls, main_vars>>

\* one iteration of the loop of _process
Process ==
  /\ pc = "process"
  /\ i <= Len(pipelines)
  /\ LET r == ProcessStep(heap, tracks, pipelines[i])
     IN  /\ heap' = r.heap
         /\ tracks' = r.tracks
         /\ runs' = runs \o r.run
         /\ IF r.raised
            THEN /\ error' = "NoPipelineSourceError"
                 /\ pc' = "failed"
                 /\ UNCHANGED <<track_keys, i>>
            ELSE /\ track_keys' = PutKeys(track_keys, r.stored)
                 /\ i' = i + 1
                 /\ UNCHANGED <<error, pc>>
  /\ UNCHANGED <<recipe, layout, program, files, pipelines, _saved_files,
                 store0, writes, merge_args, output,
                 pydub, expression, converted, actions_vars, calls, main_vars>>

\* _save, once the loop of _process has ended
Save_early ==
  /\ pc = "process"
  /\ LET r == SaveAll(files, _saved_files, writes, heap, tracks, track_keys)
     IN  /\ files' = r.files
         /\ _saved_files' = r.saved
         /\ writes' = r.written
  /\ pc' = "merge"
  /\ UNCHANGED <<recipe, layout, program, pipelines, error, tracks,
                 track_keys, heap, i, store0, runs, merge_args, output,
                 pydub, expression, converted, actions_vars, calls, main_vars>>

Save ==
  /\ pc = "process"
  /\ i > Len(pipelines)
  /\ LET r == SaveAll(files, _saved_files, writes, heap, tracks, track_keys)
     IN  /\ files' = r.files
         /\ _saved_files' = r.saved
         /\ writes' = r.written
  /\ pc' = "merge"
  /\ UNCHANGED <<recipe, layout, program, pipelines, error, tracks,
                 track_keys, heap, i, store0, runs, merge_args, output,
                 pydub, expression, converted, actions_vars, calls, main_vars>>

\* AudioMerger.merge(files).  decoded: AudioSegment.from_wav and overlay
\* raise no PydubException.  The merged audio is written as the list of the
\* files overlaid.  The variant has no test for the empty list, so that
\* files[0] raises IndexError.
merge_nocheck(fs, decoded) ==
  IF Len(fs) = 0 THEN [err |-> "IndexError", audio |-> <<>>]
  ELSE IF ~decoded THEN [err |-> "MergingError", audio |-> <<>>]
  ELSE [err |-> "none", audio |-> <<fs>>]

merge(fs, decoded) ==
  IF Len(fs) = 0 THEN [err |-> "InvalidInputError", audio |-> <<>>]
  ELSE IF ~decoded THEN [err |-> "MergingError", audio |-> <<>>]
  ELSE [err |-> "none", audio |-> <<fs>>]

\* AudioMerger.save_file(filename, audio).  exported: audio.export raises no
\* PydubException.  The variant swallows the exception.
save_file_swallow(audio, exported) ==
  IF ~exported THEN [err |-> "none", out |-> <<>>]
  ELSE [err |-> "none", out |-> audio]

save_file(audio, exported) ==
  IF ~exported THEN [err |-> "MergingError", out |-> <<>>]
  ELSE [err |-> "none", out |-> audio]

\* save_file, reached only if merge returned
ThenSaveFile(m, exported) ==
  IF m.err # "none" THEN [err |-> m.err, out |-> <<>>]
  ELSE save_file(m.audio, exported)

\* PipelineProcessor._merge
_merge(fs, decoded, exported) == ThenSaveFile(merge(fs, decoded), exported)

\* what happened in pydub during _merge
PydubOutcome(fs, decoded, exported) ==
  IF Len(fs) = 0 THEN "unused"
  ELSE IF ~decoded THEN "decode_failed"
  ELSE IF ~exported THEN "export_failed"
  ELSE "ok"

\* _merge, with either outcome of pydub's decoding and encoding
Merge ==
  /\ pc = "merge"
  /\ merge_args' = Append(merge_args, _saved_files)
  /\ \E decoded, exported \in BOOLEAN :
       /\ pydub' = PydubOutcome(_saved_files, decoded, exported)
       /\ error' = IF _merge(_saved_files, decoded, exported).err = "none"
                   THEN error
                   ELSE _merge(_saved_files, decoded, exported).err
       /\ pc' = IF _merge(_saved_files, decoded, exported).err = "none"
                THEN "done" ELSE "failed"
       /\ output' = output \o _merge(_saved_files, decoded, exported).out
  /\ UNCHANGED <<recipe, layout, program, files, pipelines, tracks,
                 track_keys, heap, _saved_files, i, store0, runs, writes,
                 expression, converted, actions_vars, calls, main_vars>>

\* a call of _convert_into_pipeline on its own, as a unit
Convert ==
  /\ pc = "unit"
  /\ converted' = _convert_into_pipeline(expression)
  /\ pc' = "unit_done"
  /\ UNCHANGED <<recipe, layout, program, files, pipelines, error, tracks,
                 track_keys, heap, _saved_files, i, store0, runs, writes,
                 merge_args, output, pydub, expression, actions_vars, calls, main_vars>>

\* track = dummy_track.clone()
Clone ==
  /\ pc = "actions"
  /\ heap' = clone(heap, dummy_track).heap
  /\ track' = clone(heap, dummy_track).track
  /\ pc' = "cloned"
  /\ UNCHANGED <<recipe, layout, program, files, pipelines, error, tracks,
                 track_keys, _saved_files, i, store0, runs, writes,
                 merge_args, output, pydub, expression, converted,
                 dummy_track, applied, calls, main_vars>>

\* track = Brownifier.time_shift(track, steps), on the fresh clone
TimeShift ==
  /\ pc = "cloned"
  /\ applied = <<>>
  /\ \E steps \in (-MaxSteps)..MaxSteps :
       /\ heap' = time_shift(heap, track, steps).heap
       /\ track' = time_shift(heap, track, steps).track
       /\ applied' = <<[fn |-> "time_shift", steps |-> steps]>>
  /\ UNCHANGED <<recipe, layout, program, files, pc, pipelines, error,
                 tracks, track_keys, _saved_files, i, store0, runs, writes,
                 merge_args, output, pydub, expression, converted,
                 dummy_track, calls, main_vars>>

\* track = Brownifier.early(track) or track = Brownifier.late(track), on
\* the clone or on what these two made of it
EarlyOrLate ==
  /\ pc = "cloned"
  /\ Len(applied) < MaxApplied
  /\ \A k \in DOMAIN applied : applied[k].fn # "time_shift"
  /\ \E fn \in {"early", "late"} :
       /\ heap' = Brownifier(fn, heap, track).heap
       /\ track' = Brownifier(fn, heap, track).track
       /\ applied' = Append(applied, [fn |-> fn, steps |-> 0])
  /\ UNCHANGED <<recipe, layout, program, files, pc, pipelines, error,
                 tracks, track_keys, _saved_files, i, store0, runs, writes,
                 merge_args, output, pydub, expression, converted,
                 dummy_track, calls, main_vars>>

\* processor.process(pipelines, output_file) once more, on the processor
\* as the call before left it
ProcessAgain ==
  /\ pc = "done" \/ (pc = "failed" /\ store0 # EmptyDict)
  /\ calls + 1 < MaxCalls
  /\ calls' = calls + 1
  /\ i' = 1
  /\ error' = "none"
  /\ pc' = "process"
  /\ UNCHANGED <<recipe, layout, program, files, pipelines, tracks,
                 track_keys, heap, _saved_files, store0, runs, writes,
                 merge_args, output, pydub, expression, converted,
                 actions_vars, main_vars>>

Next ==
  \/ GetPipelines \/ NewProcessor \/ Process \/ Save \/ Merge \/ Convert
  \/ Clone \/ TimeShift \/ EarlyOrLate

Spec == Init /\ [][Next]_vars

(***************************************************************************)
(* cli.main.  An optional argument is <<>> for None and <<v>> for the      *)
(* value v.  A recipe file is [exists, content]: whether the path names a  *)
(* file, and its text.                                                     *)
(***************************************************************************)
\* errors.py: the subclasses of BrownifyError
BrownifyErrors ==
  {"DownloadError", "InvalidInputError", "MergingError",
   "NoAudioStreamFoundError", "UnexpectedTokenTypeError",
   "TokenNotInGrammarError", "SplittingError", "NoPipelineSourceError"}

\* except BrownifyError as be: whether the handler takes the exception.
\* The variant is  except Exception.
Caught_all(e) == TRUE

Caught(e) == e \in BrownifyErrors

\* f.read().replace("\n", "")
RemoveNewlines(text) == SelectSeq(text, LAMBDA ch : ch # "\n")

\* _get_program(recipe, recipe_file): [err, program]
_get_program(recipe_arg, recipe_file) ==
  IF recipe_arg # <<>> /\ recipe_arg[1] # <<>>
  THEN [err |-> "none", program |-> recipe_arg[1]]
  ELSE IF recipe_file # <<>>
  THEN IF ~recipe_file[1].exists
       THEN [err |-> "FileNotFoundError", program |-> <<>>]
       ELSE [err |-> "none",
             program |-> RemoveNewlines(recipe_file[1].content)]
  ELSE [err |-> "InvalidInputError", program |-> <<>>]

\* _cleanup(downloaded_file, session_id): os.remove(None) raises TypeError,
\* which is no OSError; any OSError of os.remove and shutil.rmtree is only
\* logged
_cleanup(downloaded_file, done) ==
  IF downloaded_file = "None" THEN [raised |-> "TypeError", effects |-> done]
  ELSE [raised |-> "none", effects |-> done \o <<"remove", "rmtree">>]

\* the recipes main is run with: one that saves a track, one without a
\* sink, one whose source is no track, one that saves nothing
MainExprs ==
  {[source |-> vocals, actions |-> <<flat>>, sink |-> Sink("save", vocals)],
   [source |-> vocals, actions |-> <<>>, sink |-> Sink("var", flat)],
   [source |-> v2, actions |-> <<>>, sink |-> Sink("save", vocals)],
   [source |-> vocals, actions |-> <<>>, sink |-> Sink("var", v2)]}

\* --recipe: these recipes, a text that is no recipe, and the empty text
RecipeArgs ==
  {<<Render(<<e>>, DefaultLayout)>> : e \in MainExprs}
    \cup {<<SaveAlone(vocals, DefaultLayout)>>, <<<<>>>>}

\* --recipe-file: a path that names no file, and files of several lines
RecipeFiles ==
  {<<[exists |-> FALSE, content |-> <<>>]>>}
    \cup {<<[exists |-> TRUE, content |-> Render(<<e>>, BlankLines)]>> :
            e \in MainExprs}

\* get_args(): one of --recipe and --recipe-file, one of --youtube-input
\* and --local-input
ArgsPool ==
  {[recipe |-> r[1], recipe_file |-> r[2], youtube_input |-> inp[1],
    local_input |-> inp[2], preserve |-> p] :
     r \in {<<ra, <<>>>> : ra \in RecipeArgs}
            \cup {<<<<>>, rf>> : rf \in RecipeFiles},
     inp \in {<<<<"url">>, <<>>>>, <<<<>>, <<"song.mp3">>>>},
     p \in BOOLEAN}

InitMain ==
  /\ recipe = <<>>
  /\ layout = DefaultLayout
  /\ files = SplitFiles(TRUE)
  /\ program = <<>>
  /\ pc = "main"
  /\ expression = <<>>
  /\ heap = <<>>
  /\ dummy_track = <<>>
  /\ InitRest
  /\ args \in ArgsPool

\* program = _get_program(recipe, recipe_file)
GetProgram ==
  /\ pc = "main"
  /\ program' = _get_program(args.recipe, args.recipe_file).program
  /\ error' = _get_program(args.recipe, args.recipe_file).err
  /\ pc' = IF _get_program(args.recipe, args.recipe_file).err = "none"
           THEN "start" ELSE "failed"
  /\ UNCHANGED <<recipe, layout, files, pipelines, tracks, track_keys, heap,
                 _saved_files, i, store0, runs, writes, merge_args, output,
                 pydub, expression, converted, actions_vars, calls,
                 main_vars>>

\* where main is when it turns to its input.  The variant fetches the
\* input as soon as the program is read.
InputReady_early == pc = "start"

InputReady == pc = "compiled"

\* lines 126-146 of main: the input file is downloaded or linked, then
\* split.  get_audio is called on the class, so that its self is the url
\* and self.yt raises AttributeError; split_ok: the splitter raises nothing.
GetInput ==
  /\ args # NoArgs
  /\ InputReady
  /\ input_file = "None"
  /\ IF args.youtube_input # <<>>
     THEN /\ effects' = Append(effects, "get_audio")
          /\ error' = "AttributeError"
          /\ pc' = "failed"
          /\ UNCHANGED input_file
     ELSE /\ input_file' = "id.mp3"
          /\ effects' = effects \o <<"symlink", "split">>
          /\ \E split_ok \in BOOLEAN :
               /\ error' = IF split_ok THEN error ELSE "SpleeterError"
               /\ pc' = IF split_ok THEN "split" ELSE "failed"
  /\ UNCHANGED <<recipe, layout, program, files, pipelines, tracks,
                 track_keys, heap, _saved_files, i, store0, runs, writes,
                 merge_args, output, pydub, expression, converted,
                 actions_vars, calls, args, status>>

\* what the try statement of main is about to do when its finally clause
\* begins: return 0, return 1 from the handler, or let the exception pass
Pending ==
  IF pc = "done"
  THEN [returned |-> "0", raised |-> "none", handled |-> FALSE]
  ELSE IF Caught(error)
  THEN [returned |-> "1", raised |-> "none", handled |-> TRUE]
  ELSE [returned |-> "none", raised |-> error, handled |-> FALSE]

\* the except and finally clauses of main, and its end: an exception raised
\* in the finally clause replaces the pending return or exception
Finish ==
  /\ args # NoArgs
  /\ pc \in {"done", "failed"}
  /\ IF args.preserve
     THEN /\ status' = Pending
          /\ UNCHANGED effects
     ELSE /\ effects' = _cleanup(input_file, effects).effects
          /\ status' = IF _cleanup(input_file, effects).raised = "none"
                       THEN Pending
                       ELSE [returned |-> "none",
                             raised |-> _cleanup(input_file, effects).raised,
                             handled |-> Pending.handled]
  /\ pc' = "exited"
  /\ UNCHANGED <<recipe, layout, program, files, pipelines, error, tracks,
                 track_keys, heap, _saved_files, i, store0, runs, writes,
                 merge_args, output, pydub, expression, converted,
                 actions_vars, calls, args, input_file>>

NextMain ==
  \/ GetProgram \/ GetPipelines \/ GetInput \/ NewProcessor \/ Process
  \/ Save \/ Merge \/ Finish

SpecMain == InitMain /\ [][NextMain]_vars

\* one PipelineProcessor whose process() is called up to MaxCalls times
InitReuse ==
  /\ Init
  /\ pc = "start"
  /\ layout = DefaultLayout
  /\ recipe \in {<<e>> : e \in ChainExprs} \cup [1..2 -> PlainExprs]

NextReuse ==
  GetPipelines \/ NewProcessor \/ Process \/ Save \/ Merge \/ ProcessAgain

SpecReuse == InitReuse /\ [][NextReuse]_vars

(***************************************************************************)
(* Properties of the compiler.                                             *)
(***************************************************************************)
CompileErrors ==
  {"ParseException", "UnexpectedTokenTypeError", "TokenNotInGrammarError",
   "TypeError", "KeyError"}

\* get_pipelines has returned a list for the recipe
Accepted == pc # "start" /\ error \notin CompileErrors

\* the expressions of the recipe whose sink is not drop, in order
NonDrop(r) == SelectSeq(r, LAMBDA e : e.sink.kind # "drop")

\* C1: for every accepted recipe the compiled list has exactly one pipeline
\* per expression whose sink is not drop, in the order of the expressions:
\* the k-th pipeline has the source and the sink name of the k-th such
\* expression.
C1_OnePipelinePerNonDropExpr ==
  Accepted =>
    /\ Len(pipelines) = Len(NonDrop(recipe))
    /\ \A k \in 1..Len(pipelines) :
         /\ pipelines[k].source = NonDrop(recipe)[k].source
         /\ pipelines[k].sink = NonDrop(recipe)[k].sink.name

\* an accepted recipe of a drop expression followed by another expression
C1_Witness ==
  /\ Accepted
  /\ Len(recipe) = 2
  /\ recipe[1].sink.kind = "drop"
  /\ recipe[2].sink.kind # "drop"
  /\ Len(pipelines) = 1
  /\ pipelines[1].source = recipe[2].source

\* C2: a save(x) sink compiles to sink = x and save = TRUE, a plain
\* identifier sink to that identifier and save = FALSE, whatever the name.
C2_SaveSinkSetsFlag ==
  Accepted =>
    \A k \in 1..Len(NonDrop(recipe)) :
      k <= Len(pipelines) =>
        /\ pipelines[k].sink = NonDrop(recipe)[k].sink.name
        /\ pipelines[k].save = (NonDrop(recipe)[k].sink.kind = "save")

\* an accepted recipe with a save sink on a channel name and a plain sink
C2_Witness ==
  /\ Accepted
  /\ Len(pipelines) = 2
  /\ recipe[1].sink = Sink("save", vocals)
  /\ recipe[2].sink.kind = "var"
  /\ pipelines[1].save
  /\ ~pipelines[2].save

\* the loop of _process is over (ended or raised), nothing exported yet
LoopOver ==
  \/ pc = "process" /\ i > Len(pipelines)
  \/ pc = "failed" /\ error = "NoPipelineSourceError"

\* the pipelines of the recipe with its drop expressions taken out (no
\* pipelines when nothing is left to compile)
PipelinesWithoutDrops ==
  IF NonDrop(recipe) = <<>> THEN <<>>
  ELSE get_pipelines(Render(NonDrop(recipe), layout)).pipelines

\* C3: an expression whose sink is drop, whatever actions precede it,
\* yields no Pipeline, and running the compiled recipe leaves the track
\* store as running the recipe without that expression does.
C3_DropLeavesStoreAlone ==
  LoopOver =>
    /\ Len(pipelines) = Len(NonDrop(recipe))
    /\ StoreContent(heap, tracks) = ProcessFresh(files, PipelinesWithoutDrops)

\* a run of a recipe with a drop expression that has an action and an
\* expression that changes the store
C3_Witness ==
  /\ LoopOver
  /\ Len(recipe) = 2
  /\ recipe[1].sink.kind = "drop"
  /\ recipe[1].actions # <<>>
  /\ recipe[2].sink.kind # "drop"
  /\ Len(runs) = 1
  /\ StoreContent(heap, tracks) # store0

\* C4: executing one pipeline changes only the store entry named by its
\* sink: every other entry, the source's included when sink # source,
\* keeps its buffer contents, channel count, sample rate and save flag;
\* no step ever removes an entry from the store.
C4_OnlySinkEntryChanges ==
  [][/\ DOMAIN tracks \subseteq DOMAIN tracks'
     /\ (pc = "process" /\ i <= Len(pipelines)) =>
          \A n \in DOMAIN tracks \ {pipelines[i].sink} :
            Content(heap', tracks'[n]) = Content(heap, tracks[n])]_vars

\* a pipeline with an action and sink # source has been executed on stereo
\* audio and stored something other than what its source holds
C4_Witness ==
  /\ Len(runs) >= 1
  /\ pipelines[1].actions # <<>>
  /\ pipelines[1].sink # pipelines[1].source
  /\ runs[1].input.stereo
  /\ runs[1].output.data # runs[1].input.data
  /\ Content(heap, tracks[pipelines[1].source]) = store0[pipelines[1].source]

\* the pipelines before the k-th whose sink is the name n
WritersBefore(k, n) == {j \in 1..(k - 1) : pipelines[j].sink = n}

Latest(S) == CHOOSE j \in S : \A m \in S : m <= j

\* the same audio: buffer contents, layout, channel count, sample rate
SameAudio(a, b) ==
  /\ a.data = b.data
  /\ a.stereo = b.stereo
  /\ a.num_channels = b.num_channels
  /\ a.sample_rate = b.sample_rate

InitialChannels == {CHANNELS[c] : c \in DOMAIN CHANNELS}

\* C5: a pipeline whose source is the sink of an earlier pipeline of the
\* list succeeds, and its input is what the latest such pipeline produced,
\* not the track loaded from the splitter, also for a channel name.
C5_ReadsEarlierOutput ==
  /\ \A k \in 1..Len(runs) :
       WritersBefore(k, pipelines[k].source) # {} =>
         SameAudio(runs[k].input,
                   runs[Latest(WritersBefore(k, pipelines[k].source))].output)
  /\ error = "NoPipelineSourceError" =>
       WritersBefore(i, pipelines[i].source) = {}

\* the second pipeline reads a channel name that the first one overwrote
\* with something else than the loaded track
C5_Witness ==
  /\ Len(runs) = 2
  /\ pipelines[1].sink = vocals
  /\ pipelines[2].source = vocals
  /\ runs[2].input.data # store0[vocals].data
  /\ runs[2].input.data = runs[1].output.data

\* C6: a pipeline reached while its source is neither an initial channel
\* nor the sink of a pipeline executed before it fails with
\* NoPipelineSourceError, whatever the pipelines after it would create, and
\* nothing is executed after the failure.
C6_MissingSourceFails ==
  [][/\ (/\ pc = "process"
         /\ i <= Len(pipelines)
         /\ pipelines[i].source \notin InitialChannels
         /\ WritersBefore(i, pipelines[i].source) = {}) =>
          /\ pc' = "failed"
          /\ error' = "NoPipelineSourceError"
          /\ UNCHANGED <<i, runs, tracks, heap>>
     /\ pc # "failed"]_vars

\* the first pipeline failed on a name that the second one would create
C6_Witness ==
  /\ error = "NoPipelineSourceError"
  /\ Len(pipelines) = 2
  /\ i = 1
  /\ pipelines[2].sink = pipelines[1].source
  /\ pipelines[2].source \in InitialChannels
  /\ runs = <<>>

\* something has been exported to a file, or a merge has been attempted
ExportedOrMerged ==
  writes # <<>> \/ _saved_files # <<>> \/ merge_args # <<>> \/ output # <<>>

\* C7: process exports no track and attempts no merge before every
\* pipeline of the list has executed successfully; after a
\* NoPipelineSourceError nothing is exported and the merger is not invoked.
C7_NoExportBeforeAllRan ==
  /\ ExportedOrMerged =>
       /\ Len(runs) = Len(pipelines)
       /\ i > Len(pipelines)
       /\ error # "NoPipelineSourceError"
  /\ error = "NoPipelineSourceError" =>
       /\ ~ExportedOrMerged
       /\ files \in {SplitFiles(st) : st \in BOOLEAN}

\* a save pipeline ran, then the next pipeline failed: nothing exported
C7_Witness ==
  /\ error = "NoPipelineSourceError"
  /\ Len(runs) = 1
  /\ pipelines[1].save
  /\ tracks[pipelines[1].sink].save
  /\ writes = <<>>
  /\ merge_args = <<>>

\* the statement of C8 as claimed: after a NoPipelineSourceError the store
\* is as it was before the first pipeline ran
C8_StoreRolledBack ==
  error = "NoPipelineSourceError" => StoreContent(heap, tracks) = store0

\* C8 (amended): after a NoPipelineSourceError the store keeps what the
\* pipelines before the failing one stored: each name they wrote holds the
\* output of the latest of them, every other name holds what was loaded,
\* and the failing pipeline has added or changed nothing.
C8_KeepsEarlierEffects ==
  error = "NoPipelineSourceError" =>
    /\ Len(runs) = i - 1
    /\ DOMAIN tracks =
         InitialChannels \cup {pipelines[j].sink : j \in 1..(i - 1)}
    /\ \A n \in DOMAIN tracks :
         IF WritersBefore(i, n) = {}
         THEN Content(heap, tracks[n]) = store0[n]
         ELSE Content(heap, tracks[n]) = runs[Latest(WritersBefore(i, n))].output

\* the second pipeline failed and the store still holds what the first
\* one stored
C8_Witness ==
  /\ error = "NoPipelineSourceError"
  /\ i = 2
  /\ Len(runs) = 1
  /\ StoreContent(heap, tracks) # store0
  /\ Content(heap, tracks[pipelines[1].sink]) = runs[1].output

\* the names whose latest writing pipeline of the whole list has save set
SavedNames ==
  {n \in {pipelines[j].sink : j \in 1..Len(pipelines)} :
     pipelines[Latest(WritersBefore(Len(pipelines) + 1, n))].save}

\* C9: after a successful run on a fresh processor the exported files are
\* those of the names whose latest writing pipeline had save set, each
\* once, and they are what the merger is given.
C9_ExportsLatestSaved ==
  (pc \in {"merge", "done"} \/ merge_args # <<>>) =>
    /\ {writes[k] : k \in DOMAIN writes} =
         {Filename(target, n) : n \in SavedNames}
    /\ Len(writes) = Cardinality(SavedNames)
    /\ _saved_files = writes
    /\ \A k \in DOMAIN merge_args : merge_args[k] = writes

\* a saved name overwritten by a pipeline without save: nothing exported
C9_Witness ==
  /\ pc = "merge"
  /\ Len(pipelines) = 2
  /\ pipelines[1].save
  /\ ~pipelines[2].save
  /\ pipelines[2].sink = pipelines[1].sink
  /\ writes = <<>>

\* C10: executing a pipeline without actions stores under its sink a
\* track with the buffer contents, channel count and sample rate its
\* source has at that moment, and with the save flag of the pipeline.
C10_ZeroActionsCopies ==
  [][(/\ pc = "process"
      /\ i <= Len(pipelines)
      /\ pipelines[i].actions = <<>>
      /\ pipelines[i].source \in DOMAIN tracks) =>
       Content(heap', tracks'[pipelines[i].sink]) =
         [Content(heap, tracks[pipelines[i].source])
            EXCEPT !.save = pipelines[i].save]]_vars

\* a save pipeline without actions copied a track that an earlier pipeline
\* had changed
C10_Witness ==
  /\ Len(runs) = 2
  /\ pipelines[2].actions = <<>>
  /\ pipelines[2].save
  /\ pipelines[2].source = pipelines[1].sink
  /\ pipelines[2].sink # pipelines[2].source
  /\ runs[1].output.data # runs[1].input.data
  /\ Content(heap, tracks[pipelines[2].sink]).data = runs[1].output.data
  /\ tracks[pipelines[2].sink].save

\* array a of heap h after every sample of it has been overwritten
Overwritten(h, a) ==
  [h EXCEPT ![a].data = [k \in DOMAIN h[a].data |-> <<0>>]]

\* c is what clone returned for the track t of heap h: an equal buffer that
\* is another array, the same channel count and rate, save reset; h itself
\* is as before, and writing into either buffer leaves the other alone
IsClone(h, t, c) ==
  /\ c.track.audio # t.audio
  /\ c.heap[c.track.audio] = h[t.audio]
  /\ c.track.num_channels = t.num_channels
  /\ c.track.sample_rate = t.sample_rate
  /\ c.track.save = FALSE
  /\ SubSeq(c.heap, 1, Len(h)) = h
  /\ Overwritten(c.heap, c.track.audio)[t.audio] = h[t.audio]
  /\ Overwritten(c.heap, t.audio)[c.track.audio] = h[t.audio]

\* C11: Track.clone returns a track with a buffer equal in value to the
\* original's but distinct from it, with the original's channel count and
\* sample rate and with save false whatever the original's flag; the
\* original is unchanged.  Stated for every track of every reachable store.
C11_CloneIsDeepCopy ==
  \A n \in DOMAIN tracks : IsClone(heap, tracks[n], clone(heap, tracks[n]))

\* a save-marked stereo track has been cloned as the source of a pipeline
C11_Witness ==
  /\ Len(runs) = 2
  /\ pipelines[1].save
  /\ pipelines[2].source = pipelines[1].sink
  /\ pipelines[2].sink # pipelines[2].source
  /\ tracks[pipelines[2].source].save
  /\ runs[2].input.stereo
  /\ runs[2].input.save = FALSE
  /\ runs[2].input.data = Content(heap, tracks[pipelines[2].source]).data

\* the recipe text is one of the malformed texts, of the kind named
NotSeparated ==
  Len(recipe) = 2 /\ program = NoSemicolon(recipe, layout)

UnknownAction ==
  /\ Len(recipe) = 1
  /\ \E w \in FakeWords : program = FakeAction(recipe[1], w, layout)

StartsWithSave ==
  /\ Len(recipe) = 1
  /\ program \in {SaveAlone(recipe[1].source, layout),
                  SaveAsSource(recipe[1], layout)}

\* C12: get_pipelines fails with pyparsing's ParseException and returns no
\* pipeline for a recipe with two expressions not separated by ';', with a
\* word that is no action keyword in an action slot, or with an expression
\* that starts with a save(...) construct.
C12_MalformedIsParseFailure ==
  (pc # "start" /\ (NotSeparated \/ UnknownAction \/ StartsWithSave)) =>
    /\ error = "ParseException"
    /\ pc = "failed"
    /\ pipelines = <<>>

\* two well-formed expressions separated by a newline only were rejected
C12_Witness ==
  /\ NotSeparated
  /\ layout.sp = <<"\n", " ">>
  /\ recipe[1].sink.kind = "save"
  /\ error = "ParseException"
  /\ pc = "failed"

\* the recipe text has an expression with no leading source
NoLeadingSource ==
  StartsWithSave \/ (Len(recipe) = 1 /\ program = MissingSource(recipe[1], layout))

\* the statement of C13 as claimed: such a recipe fails with the
\* UnexpectedTokenTypeError of the leading-token check of the compiler
C13_InvalidSourceError ==
  (pc # "start" /\ NoLeadingSource) => error = "UnexpectedTokenTypeError"

\* C13 (amended): a recipe whose expression has no leading source, such as
\* "save(vocals);", is rejected by the grammar: get_pipelines fails with
\* ParseException, the same outcome as any other syntax error, and the
\* leading-token check of the compiler is not reached.
C13_NoSourceIsParseFailure ==
  (pc # "start" /\ NoLeadingSource) =>
    /\ ~parseString(program).ok
    /\ error = "ParseException"
    /\ pipelines = <<>>

\* "save(vocals);" was given and rejected as a syntax error
C13_Witness ==
  /\ pc = "failed"
  /\ Len(recipe) = 1
  /\ program = SaveOpen \o vocals \o SaveClose \o Semi
  /\ error = "ParseException"

ActionKeywords == {ActionWords[w] : w \in DOMAIN ActionWords}

\* the recipe text is well formed and the final token of one of its
\* expressions is an action keyword
EndsWithAction ==
  /\ program = Render(recipe, layout)
  /\ \E k \in DOMAIN recipe :
       recipe[k].sink.kind = "var" /\ recipe[k].sink.name \in ActionKeywords

\* the statement of C14 as claimed: such a recipe fails with the missing-sink
\* error, and no pipeline ever has an action keyword as sink name
C14_NoActionKeywordSink ==
  pc # "start" =>
    /\ EndsWithAction =>
         error = "UnexpectedTokenTypeError" /\ pipelines = <<>>
    /\ \A k \in DOMAIN pipelines : pipelines[k].sink \notin ActionKeywords

\* C14 (amended): an expression the grammar accepts whose final token is an
\* action keyword fails compilation with the missing-sink error
\* (UnexpectedTokenTypeError); a Pipeline whose sink name is an action
\* keyword is produced only from a save(...) sink naming it, with save set.
C14_KeywordSinkOnlyBySave ==
  pc # "start" =>
    /\ EndsWithAction =>
         error = "UnexpectedTokenTypeError" /\ pipelines = <<>>
    /\ \A k \in DOMAIN pipelines :
         pipelines[k].sink \in ActionKeywords =>
           /\ pipelines[k].save
           /\ NonDrop(recipe)[k].sink = Sink("save", pipelines[k].sink)

\* "vocals -> flat -> sharp;" was rejected for its missing sink
C14_Witness ==
  /\ pc = "failed"
  /\ EndsWithAction
  /\ recipe[1].actions = <<flat>>
  /\ recipe[1].sink.name = sharp
  /\ error = "UnexpectedTokenTypeError"

\* C15: if no track of the store is save-marked after all pipelines have
\* run, an empty pipeline list included, process fails with the
\* InvalidInputError of AudioMerger.merge on the empty file list, and no
\* merged output is written.
C15_NothingSavedIsInvalidInput ==
  (merge_args # <<>> /\ \A n \in DOMAIN tracks : ~tracks[n].save) =>
    /\ merge_args = << <<>> >>
    /\ error = "InvalidInputError"
    /\ pc = "failed"
    /\ output = <<>>
    /\ pydub = "unused"

\* the recipe compiled to no pipeline at all, and process failed in merge
C15_Witness ==
  /\ recipe # <<>>
  /\ pipelines = <<>>
  /\ merge_args = << <<>> >>
  /\ error = "InvalidInputError"
  /\ pc = "failed"

\* C19: a PydubException in the decoding or overlay of AudioMerger.merge or
\* in the encoding of AudioMerger.save_file reaches the caller as
\* MergingError; it is never swallowed and never yields a merged result.
C19_PydubFailureIsMergingError ==
  pydub \in {"decode_failed", "export_failed"} =>
    /\ error = "MergingError"
    /\ pc = "failed"
    /\ output = <<>>

\* the tracks were merged, then the export of the merged audio failed
C19_Witness ==
  /\ pydub = "export_failed"
  /\ Len(merge_args) = 1
  /\ Len(merge_args[1]) = 2
  /\ error = "MergingError"
  /\ output = <<>>

\* the transforms named by a sequence of action keywords
Transforms(keywords) == [j \in DOMAIN keywords |-> _fn_map[keywords[j]]]

\* the audio content c held by the only track of a heap
Alone(c) ==
  [heap |-> <<[stereo |-> c.stereo, data |-> c.data]>>,
   track |-> Track(1, c.num_channels, c.sample_rate, FALSE)]

\* the transforms fns applied to x one after the other: the last one is
\* applied to the result of those before it
RECURSIVE AppliedInOrder(_, _)
AfterLast(fn, x) == Brownifier(fn, x.heap, x.track)

AppliedInOrder(fns, x) ==
  IF fns = <<>> THEN x
  ELSE AfterLast(fns[Len(fns)], AppliedInOrder(SubSeq(fns, 1, Len(fns) - 1), x))

DataOf(x) == x.heap[x.track.audio].data

\* C17: the actions of a compiled Pipeline are the transforms named by the
\* action keywords between source and sink of its expression, in the same
\* order and with the same multiplicity, and the executor applies them to
\* the clone in that order.
C17_ActionsInOrder ==
  Accepted =>
    /\ \A k \in DOMAIN pipelines :
         pipelines[k].actions = Transforms(NonDrop(recipe)[k].actions)
    /\ \A k \in DOMAIN runs :
         runs[k].output.data =
           DataOf(AppliedInOrder(Transforms(NonDrop(recipe)[k].actions),
                                 Alone(runs[k].input)))

\* a pipeline with two different actions ran, and the other order would
\* have given another result
C17_Witness ==
  /\ Len(runs) = 1
  /\ recipe[1].actions = <<early, flat>>
  /\ pipelines[1].actions = <<"early", "flat">>
  /\ runs[1].output.data #
       DataOf(AppliedInOrder(<<"flat", "early">>, Alone(runs[1].input)))

\* the recipe text is the recipe rendered with the layout, with or without
\* whitespace before it
WellFormedText ==
  program \in {Render(recipe, layout), RenderLed(recipe, layout)}

\* C18: two recipes that differ only in the whitespace between tokens
\* (spaces, newlines, blank lines) compile to the same list of pipelines;
\* stated as: a recipe in any layout compiles as it does in the layout with
\* single spaces.
C18_WhitespaceInsignificant ==
  (WellFormedText /\ pc \in {"compiled", "failed"}
                  /\ error \in CompileErrors \cup {"none"}) =>
    get_pipelines(Render(recipe, DefaultLayout)) =
      [err |-> error, pipelines |-> pipelines]

\* two expressions written with blank lines and leading whitespace compiled
\* to two pipelines
C18_Witness ==
  /\ pc = "compiled"
  /\ layout = BlankLines
  /\ program = RenderLed(recipe, layout)
  /\ Len(recipe) = 2
  /\ Len(pipelines) = 2
  /\ pipelines[1].actions = <<"flat">>
  /\ pipelines[2].save

\* the texts of the tokens after the leading source of the expressions
\* among the parse results toks
TokensOf(toks) ==
  UNION {{TokenText(toks[e].parts[k]) : k \in 2..Len(toks[e].parts)} :
           e \in {x \in DOMAIN toks : toks[x].group}}

\* how many of the predicates action, connector, sink hold of a token
Holding(t) ==
  (IF _is_action(t) THEN 1 ELSE 0) + (IF _is_connector(t) THEN 1 ELSE 0)
    + (IF _is_sink(t) THEN 1 ELSE 0)

\* the statement of C20 as claimed: exactly one of the three predicates
\* holds of every such token
C20_ExactlyOneClass ==
  pc \in {"compiled", "failed"} =>
    \A t \in TokensOf(parseString(program).toks) : Holding(t) = 1

\* C20 (amended): of every token the grammar emits after the leading source
\* at least one of the predicates action, connector, sink holds, and
\* connector holds of no token of which another holds; but every action
\* keyword satisfies sink as well as action (a plain sink is any word), and
\* these are the only tokens of which two hold.  The compiler tests action
\* first.
C20_TotalWithActionOverlap ==
  pc \in {"compiled", "failed"} =>
    \A t \in TokensOf(parseString(program).toks) :
      /\ Holding(t) >= 1
      /\ _is_connector(t) => Holding(t) = 1
      /\ _is_action(t) <=> t \in ActionKeywords
      /\ _is_action(t) => _is_sink(t)
      /\ Holding(t) = 2 <=> _is_action(t)

\* a compiled recipe whose tokens are an action keyword, connectors and a
\* save group
C20_Witness ==
  /\ pc = "compiled"
  /\ TokensOf(parseString(program).toks) =
       {Arrow, flat, SaveOpen \o vocals \o SaveClose}
  /\ Holding(flat) = 2
  /\ Holding(Arrow) = 1
  /\ Holding(SaveOpen \o vocals \o SaveClose) = 1

\* the conversion that made get_pipelines fail: that of the first
\* expression that does not convert
RECURSIVE FirstRaise(_)
FirstRaiseFrom(r, rest) == IF r.kind = "error" THEN r ELSE FirstRaise(rest)

FirstRaise(exprs) ==
  IF exprs = <<>> THEN ReturnNone
  ELSE FirstRaiseFrom(_convert_into_pipeline(Head(exprs)), Tail(exprs))

\* the failure of this state, if any, as <<kind, type>>: the kind is the
\* raise statement reached, the type is what the caller gets
Failure ==
  IF pc = "unit_done" /\ converted.kind = "error"
  THEN <<converted.site, converted.err>>
  ELSE IF error = "none" THEN <<>>
  ELSE IF merge_args # <<>>
  THEN <<IF pydub = "unused" THEN "no_saved_tracks" ELSE "merging", error>>
  ELSE IF store0 # EmptyDict THEN <<"missing_source_at_runtime", error>>
  ELSE IF ~parseString(program).ok THEN <<"syntax", error>>
  ELSE <<FirstRaise(_split_into_expressions(parseString(program).toks)).site,
         error>>

\* the failures of _convert_into_pipeline over all its arguments
RaisedByConvert ==
  {<<r.site, r.err>> :
     r \in {c \in {_convert_into_pipeline(e) : e \in TokenLists} :
              c.kind = "error"}}

\* the statement of C16 as claimed: the type of a failure tells its kind, so
\* no conversion fails in another way with the type this one failed with
C16_TypeTellsKind ==
  (pc = "unit_done" /\ Failure # <<>>) =>
    \A p \in RaisedByConvert : p[2] = Failure[2] => p[1] = Failure[1]

\* the type each kind of failure is raised with
TypeOfKind ==
  [k \in {"syntax", "invalid_source", "missing_sink", "mismatch",
          "missing_source_at_runtime", "no_saved_tracks", "merging"} |->
     CASE k = "syntax" -> "ParseException"
       [] k = "invalid_source" -> "UnexpectedTokenTypeError"
       [] k = "missing_sink" -> "UnexpectedTokenTypeError"
       [] k = "mismatch" -> "TokenNotInGrammarError"
       [] k = "missing_source_at_runtime" -> "NoPipelineSourceError"
       [] k = "no_saved_tracks" -> "InvalidInputError"
       [] k = "merging" -> "MergingError"]

\* C16 (amended): every kind of failure of compiler and executor reaches
\* the caller as a typed error: syntax error as ParseException,
\* grammar/semantics mismatch as TokenNotInGrammarError, missing source at
\* run time as NoPipelineSourceError, no saved tracks as InvalidInputError;
\* invalid-source and missing-sink are both raised as
\* UnexpectedTokenTypeError, and they are the only two kinds that share a
\* type.
C16_TypedButOneShared ==
  Failure # <<>> =>
    /\ Failure[1] \in DOMAIN TypeOfKind
    /\ Failure[2] = TypeOfKind[Failure[1]]
    /\ \A k \in DOMAIN TypeOfKind :
         (TypeOfKind[k] = Failure[2] /\ k # Failure[1]) =>
           {k, Failure[1]} = {"invalid_source", "missing_sink"}

\* a conversion failed for its leading token with the type that a
\* conversion without a sink fails with
C16_Witness ==
  /\ pc = "unit_done"
  /\ expression # <<>>
  /\ expression[1] = SaveGroup(v2)
  /\ converted.site = "invalid_source"
  /\ converted.err = "UnexpectedTokenTypeError"
  /\ <<"missing_sink", "UnexpectedTokenTypeError">> \in RaisedByConvert

\* the recipe text has no expression: it is empty, whitespace only, or a
\* terminator in whitespace
ZeroExpressions == recipe = <<>> /\ program \in {<<>>} \cup NoExpression(layout)

\* get_pipelines has returned or raised for the recipe text
Returned == pc \in {"compiled", "failed", "process", "merge", "done"}

\* the statement of C21 as claimed: a recipe text with no expression is
\* accepted and gives the empty list of pipelines
C21_ZeroExpressionsAccepted ==
  (Returned /\ ZeroExpressions) => (error = "none" /\ pipelines = <<>>)

\* C21 (amended): get_pipelines accepts exactly the texts that reduce to one
\* or more terminator-separated expressions, the last terminator optional:
\* a recipe text with no expression (empty, whitespace only, or a lone
\* terminator) is rejected with pyparsing's ParseException, and so is
\* every malformed text, while every rendering of one or more expressions
\* passes the grammar.
C21_OneOrMoreExpressions ==
  Returned =>
    (error # "ParseException" <=> (recipe # <<>> /\ WellFormedText))

\* a whitespace-only text has been rejected as a syntax error
C21_Witness ==
  /\ pc = "failed"
  /\ recipe = <<>>
  /\ program = <<"\n", "\n">>
  /\ error = "ParseException"
  /\ pipelines = <<>>

\* the tokens after the leading source of the expressions of a parse result
RECURSIVE TailTokens(_)
TailTokens(exprs) ==
  IF exprs = <<>> THEN {}
  ELSE {Head(exprs)[k] : k \in 2..Len(Head(exprs))} \cup TailTokens(Tail(exprs))

\* the token is handled by one of the branches of the walk
Classified(item) ==
  \/ _is_action(TokenText(item))
  \/ _is_sink(TokenText(item))
  \/ _is_connector(TokenText(item))

\* C23: for every recipe text get_pipelines never raises
\* TokenNotInGrammarError: every token the grammar emits after the source
\* of an expression is classified as action, sink or connector, and every
\* save group the grammar emits has exactly one inner identifier.
C23_NoMismatchFromParsedText ==
  pc \in {"compiled", "failed"} =>
    /\ error # "TokenNotInGrammarError"
    /\ \A item \in TailTokens(_split_into_expressions(
                                 parseString(program).toks)) :
         /\ Classified(item)
         /\ item.group =>
              (_is_save(TokenText(item)) /\ Len(SinkNameParts(item)) = 1)

\* a recipe with an action and a save construct written with blank lines
\* has been compiled, its save group holding the one name
C23_Witness ==
  /\ pc = "compiled"
  /\ layout = BlankLines
  /\ Len(pipelines) = 1
  /\ pipelines[1].save
  /\ pipelines[1].sink = vocals
  /\ pipelines[1].actions = <<"flat">>
  /\ SaveGroup(vocals) \in TailTokens(_split_into_expressions(
                                        parseString(program).toks))

\* the words the element _action of the grammar matches, among the action
\* keywords, the keys of the registry, and words that are neither
GrammarActions ==
  {w \in {ActionWords[k] : k \in DOMAIN ActionWords} \cup DOMAIN _fn_map
            \cup FakeWords \cup {ChannelWords[k] : k \in DOMAIN ChannelWords}
            \cup {drop, v2} :
     _is_action(w)}

\* the transform named as the keyword
Namesake(w) ==
  CASE w = early -> "early"
    [] w = flat -> "flat"
    [] w = halfflat -> "half_flat"
    [] w = halfsharp -> "half_sharp"
    [] w = late -> "late"
    [] w = octavedown -> "octave_down"
    [] w = octaveup -> "octave_up"
    [] w = sharp -> "sharp"

\* C24: the action keywords the grammar accepts are the keys of the action
\* registry, the eight names early, flat, halfflat, halfsharp, late,
\* octavedown, octaveup, sharp, each mapped to its namesake transform, so
\* that the lookup of a token classified as an action never fails while a
\* recipe is compiled.
C24_RegistryMatchesGrammar ==
  pc \in {"compiled", "failed"} =>
    /\ error \notin {"KeyError", "TypeError"}
    /\ pc = "compiled" =>
         LET accepted == GrammarActions
         IN  /\ accepted = DOMAIN _fn_map
             /\ accepted = {early, flat, halfflat, halfsharp, late,
                            octavedown, octaveup, sharp}
             /\ \A w \in accepted : _fn_map[w] = Namesake(w)
    /\ (pc = "compiled" /\ WellFormedText
                        /\ Len(pipelines) = Len(NonDrop(recipe))) =>
         \A k \in DOMAIN pipelines :
           pipelines[k].actions =
             [j \in DOMAIN NonDrop(recipe)[k].actions |->
                Namesake(NonDrop(recipe)[k].actions[j])]

\* a recipe with the actions halfsharp and early has been compiled
C24_Witness ==
  /\ pc = "compiled"
  /\ Len(recipe) = 1
  /\ Len(pipelines) = 1
  /\ recipe[1].actions = <<halfsharp, early>>
  /\ pipelines[1].actions = <<"half_sharp", "early">>

\* the tokens of an expression that the walk takes the sink branch for
SinkItems(e) ==
  SelectSeq(Tail(e), LAMBDA item : /\ ~_is_action(TokenText(item))
                                   /\ _is_sink(TokenText(item)))

\* the sink name and the save flag a sink token stands for on its own
SinkOf(item) ==
  IF _is_save(TokenText(item))
  THEN [sink |-> SinkNameParts(item)[1], save |-> TRUE]
  ELSE [sink |-> TokenText(item), save |-> FALSE]

\* C25: when _convert_into_pipeline is given an expression with several
\* sink tokens, none of them drop, the sink name and the save flag of the
\* Pipeline are both those of the last sink token visited.
C25_LastSinkWins ==
  (/\ pc = "unit_done"
   /\ converted.kind = "pipeline"
   /\ Len(SinkItems(expression)) > 1) =>
    LET last == SinkItems(expression)[Len(SinkItems(expression))]
    IN  /\ converted.pipeline[1].sink = SinkOf(last).sink
        /\ converted.pipeline[1].save = SinkOf(last).save

\* the buffer of the track the actions were called on, and of its clone
\* as the actions have left it
Original == heap[dummy_track.audio].data

Shifted == heap[track.audio].data

\* b is a cyclic rotation of a: a cut in two, the parts exchanged
IsRotation(a, b) ==
  \E j \in 0..Len(a) : b = SubSeq(a, j + 1, Len(a)) \o SubSeq(a, 1, j)

\* the names of the actions called, in order
AppliedFns == [k \in DOMAIN applied |-> applied[k].fn]

\* C22: shifting a track in time is a cyclic rotation of its buffer:
\* time_shift by 0 steps leaves the buffer unchanged, and early then late,
\* or late then early, restores the original buffer, for mono and stereo
\* tracks of any length.
C22_ShiftIsRotation ==
  (pc = "cloned" /\ applied # <<>>) =>
    /\ Original = [k \in DOMAIN Original |-> <<k>>]
    /\ heap[track.audio].stereo = heap[dummy_track.audio].stereo
    /\ IsRotation(Original, Shifted)
    /\ applied = <<[fn |-> "time_shift", steps |-> 0]>> => Shifted = Original
    /\ AppliedFns \in {<<"early", "late">>, <<"late", "early">>} =>
         Shifted = Original

\* early then late have been called on a stereo clone: early changed the
\* buffer, late restored it
C22_Witness ==
  /\ pc = "cloned"
  /\ AppliedFns = <<"early", "late">>
  /\ dummy_track.num_channels = 2
  /\ Len(Original) >= 6
  /\ Len(heap) = 4
  /\ heap[3].data # Original
  /\ Shifted = Original

\* C30: for a stereo track with N frames, time_shift(track, k) moves the
\* sample at frame t of channel c to frame (t + k) mod N of the same
\* channel c, the same displacement as for a mono track, where the sample
\* at frame t moves to frame (t + k) mod N.
C30_StereoShiftsAlongTime ==
  (pc = "cloned" /\ AppliedFns = <<"time_shift">>) =>
    LET k == applied[1].steps
        C == dummy_track.num_channels
        N == Len(Original) \div C
    IN  \A t \in 0..(N - 1), c \in 0..(C - 1) :
          Shifted[C * ((t + k) % N) + c + 1] = Original[C * t + c + 1]

\* the names of the tracks of the store that are marked for saving
SaveMarked == {n \in DOMAIN tracks : tracks[n].save}

\* the list has no element twice
NoFileTwice(fs) == \A j, k \in DOMAIN fs : fs[j] = fs[k] => j = k

\* C29: after any sequence of process() calls on one PipelineProcessor,
\* the file list handed to the merger by each call contains no file twice
\* and contains exactly the tracks that are save-marked in the store at
\* the end of that call.
C29_MergesTheSavedTracks ==
  (pc \in {"done", "failed"} /\ Len(merge_args) = calls + 1) =>
    /\ NoFileTwice(merge_args[calls + 1])
    /\ {merge_args[calls + 1][k] : k \in DOMAIN merge_args[calls + 1]} =
         {Filename(target, n) : n \in SaveMarked}

\* main has read its program and get_pipelines has raised: nothing else of
\* the try block has run
ParserFailed ==
  /\ args # NoArgs
  /\ pc \in {"failed", "exited"}
  /\ effects = <<>>
  /\ _get_program(args.recipe, args.recipe_file).err = "none"

\* C26 (as stated): once a BrownifyError was raised in the try block of
\* main, main ends by returning 1 and no exception escapes it, with and
\* without --preserve.
C26_BrownifyErrorReturnsOne ==
  (pc = "exited" /\ error \in BrownifyErrors) =>
    (status.returned = "1" /\ status.raised = "none")

\* C27 (as stated): every exception that get_pipelines raises in main is a
\* BrownifyError, syntax errors included.
C27_EveryParserErrorIsBrownify ==
  ParserFailed => error \in BrownifyErrors

\* C27 (amended): get_pipelines raises either a BrownifyError, which the
\* handler of main takes, or pyparsing's ParseException for a syntax error,
\* which the handler does not take: main then returns nothing and an
\* exception escapes it.
C27_SyntaxErrorsEscapeMain ==
  ParserFailed =>
    /\ error \in BrownifyErrors \cup {"ParseException"}
    /\ (pc = "exited" /\ error \in BrownifyErrors) => status.handled
    /\ (pc = "exited" /\ error = "ParseException") =>
         /\ ~status.handled
         /\ status.returned = "none"
         /\ status.raised \in {"ParseException", "TypeError"}

C27_Witness ==
  /\ ParserFailed
  /\ pc = "exited"
  /\ error = "ParseException"
  /\ status.raised = "ParseException"

\* C28: in main an input is fetched (download, symlink, split) only after
\* the program was read and compiled without error: if _get_program or
\* get_pipelines fails, none of the three happens.
C28_CompiledBeforeInput ==
  (args # NoArgs /\ effects # <<>>) =>
    /\ _get_program(args.recipe, args.recipe_file).err = "none"
    /\ program = _get_program(args.recipe, args.recipe_file).program
    /\ get_pipelines(program).err = "none"
    /\ pipelines = get_pipelines(program).pipelines

\* main has ended with --preserve after get_pipelines or _get_program
\* failed, and nothing was fetched
C28_Witness ==
  /\ pc = "exited"
  /\ args.preserve
  /\ error \in {"UnexpectedTokenTypeError", "ParseException",
                 "InvalidInputError", "FileNotFoundError"}
  /\ effects = <<>>
  /\ input_file = "None"
====
